---------------------------- MODULE Spec2Model ----------------------------
(***************************************************************************)
(* Model of audit.py: the synthetic probe cycle of the Auditor             *)
(* (load_chutes, _get_vllm_chute, _perform_request, _perform_chat,         *)
(* perform_synthetic) driven by the loop of perform_synthetics, with the   *)
(* trace extraction (_extract_target, _extract_target_error) and the       *)
(* commit of the Synthetic rows through get_session.                       *)
(*                                                                         *)
(* Optional values (Python None) are sequences of length 0 or 1:           *)
(* None is << >> and a present value x is << x >>.                         *)
(***************************************************************************)
EXTENDS Integers, Sequences, FiniteSets, TLC

(***************************************************************************)
(* Bounds of the exploration.                                              *)
(***************************************************************************)
MaxChunks == 3
MaxCycles == 2

None == << >>
Some(x) == << x >>

(***************************************************************************)
(* Trace messages are sequences of space-separated tokens.  A token is     *)
(* [k, v, c]: the text k=v (or the bare word v when k = ""), followed by   *)
(* a colon when c is TRUE.                                                 *)
(***************************************************************************)
W(w) == [k |-> "", v |-> w, c |-> FALSE]
KV(key, val) == [k |-> key, v |-> val, c |-> FALSE]
KVc(key, val) == [k |-> key, v |-> val, c |-> TRUE]

\* The character class [0-9]+ of the error pattern, on the values used here.
IsDigits(s) == s \in {"7", "8"}

\* Mutant of IsDigitsPlus: the class of the routing pattern without the "+".
DigitsOnly(s) == s \in {"7", "8"}

\* The character class [0-9+]+ of the routing pattern.
IsDigitsPlus(s) == s \in {"7", "8", "+7"}

\* [^ ]+ : one or more characters up to the next space.
NonEmpty(s) == s # ""

\* The text a group captures from the token t after "key=" (the tokens
\* captured here carry no colon).
Captured(t) == t.v

\* r"query target=([^ ]+) uid=([0-9+]+) hotkey=([^ ]+)" matched at token p.
QueryAt(m, p) ==
    /\ p + 3 <= Len(m)
    /\ m[p].k = "" /\ m[p].v = "query"
    /\ m[p + 1].k = "target" /\ NonEmpty(m[p + 1].v)
    /\ m[p + 2].k = "uid" /\ IsDigitsPlus(m[p + 2].v) /\ ~m[p + 2].c
    /\ m[p + 3].k = "hotkey" /\ NonEmpty(m[p + 3].v)

\* r"error encountered while querying target=([^ ]+) uid=([0-9]+)
\*   hotkey=([^ ]+) coldkey=[^ ]+: (.*)" matched at token p; the blank after
\* the colon needs a token to follow the coldkey.
ErrorAt(m, p) ==
    /\ p + 8 <= Len(m)
    /\ m[p].k = "" /\ m[p].v = "error"
    /\ m[p + 1] = W("encountered")
    /\ m[p + 2] = W("while")
    /\ m[p + 3] = W("querying")
    /\ m[p + 4].k = "target" /\ NonEmpty(m[p + 4].v)
    /\ m[p + 5].k = "uid" /\ IsDigits(m[p + 5].v) /\ ~m[p + 5].c
    /\ m[p + 6].k = "hotkey" /\ NonEmpty(m[p + 6].v)
    /\ m[p + 7].k = "coldkey" /\ NonEmpty(m[p + 7].v) /\ m[p + 7].c

\* re.search: the leftmost position where the pattern matches, 0 if none.
SearchQuery(m) ==
    IF \E p \in 1..Len(m) : QueryAt(m, p)
    THEN CHOOSE p \in 1..Len(m) : QueryAt(m, p) /\ \A q \in 1..(p - 1) : ~QueryAt(m, q)
    ELSE 0

SearchError(m) ==
    IF \E p \in 1..Len(m) : ErrorAt(m, p)
    THEN CHOOSE p \in 1..Len(m) : ErrorAt(m, p) /\ \A q \in 1..(p - 1) : ~ErrorAt(m, q)
    ELSE 0

(***************************************************************************)
(* Decoded stream payloads.  data is the JSON object of a "data: " line:   *)
(* [trace, error, result]; trace is None or [message, invocation_id,       *)
(* timestamp], each None when the key is missing.                          *)
(***************************************************************************)
NoExc == ""

\* class Target(BaseModel): the four identity fields are required strings.
Target(inst, inv, uid, hk, err) ==
    [instance_id |-> inst, invocation_id |-> inv, uid |-> uid, hotkey |-> hk,
     error |-> err]

\* Tokens i..Len(m) of m: what (.*) captures behind the coldkey token.
RestFrom(m, i) == [j \in 1..(Len(m) - i + 1) |-> m[i + j - 1]]

\* _extract_target: [exc, val]; val is None or Some(Target).
ExtractTarget(data) ==
    IF data.trace = None
    THEN [exc |-> NoExc, val |-> None]
    ELSE LET tr == data.trace[1] IN
         IF tr.message = None
         THEN [exc |-> "TypeError", val |-> None]          \* re.search(pattern, None)
         ELSE LET m == tr.message[1]
                  p == SearchQuery(m)
              IN  IF p = 0
                  THEN [exc |-> NoExc, val |-> None]
                  ELSE IF tr.invocation_id = None
                       THEN [exc |-> "ValidationError", val |-> None]
                       ELSE [exc |-> NoExc,
                             val |-> Some(Target(Captured(m[p + 1]), tr.invocation_id[1],
                                                 Captured(m[p + 2]), Captured(m[p + 3]),
                                                 None))]

\* _extract_target_error: [exc, val]; val is None or Some(Target) with error set.
ExtractTargetError(data) ==
    IF data.trace = None
    THEN [exc |-> NoExc, val |-> None]
    ELSE LET tr == data.trace[1] IN
         IF tr.message = None
         THEN [exc |-> "TypeError", val |-> None]
         ELSE LET m == tr.message[1]
                  p == SearchError(m)
              IN  IF p = 0
                  THEN [exc |-> NoExc, val |-> None]
                  ELSE IF tr.invocation_id = None
                       THEN [exc |-> "ValidationError", val |-> None]
                       ELSE [exc |-> NoExc,
                             val |-> Some(Target(Captured(m[p + 4]), tr.invocation_id[1],
                                                 Captured(m[p + 5]), Captured(m[p + 6]),
                                                 Some(RestFrom(m, p + 8))))]

\* _debug_target: reads chunk["trace"]["timestamp"] and ["message"].
DebugTarget(data) ==
    IF data.trace[1].timestamp = None THEN "KeyError" ELSE NoExc

\* Mutant of NewSynthetic: the record takes the invocation id of its own
\* trace as parent id.
NewSyntheticOwnId(target, parent_id, chute_id) ==
    [instance_id |-> target.instance_id,
     parent_invocation_id |-> target.invocation_id,
     invocation_id |-> target.invocation_id,
     chute_id |-> chute_id,
     miner_uid |-> target.uid,
     miner_hotkey |-> target.hotkey,
     created_at |-> "now()",
     has_error |-> FALSE]

\* Synthetic(...) as built at the append of _perform_request.
NewSynthetic(target, parent_id, chute_id) ==
    [instance_id |-> target.instance_id,
     parent_invocation_id |-> parent_id,
     invocation_id |-> target.invocation_id,
     chute_id |-> chute_id,
     miner_uid |-> target.uid,
     miner_hotkey |-> target.hotkey,
     created_at |-> "now()",
     has_error |-> FALSE]

\* Mutant of MarkLastError: the first record is marked instead of the last.
MarkFirstError(syn) == [syn EXCEPT ![1].has_error = TRUE]

\* Mutant of MarkLastError: the flag of the last record is flipped.
ToggleLastError(syn) == [syn EXCEPT ![Len(syn)].has_error = ~@]

\* synthetics[-1].has_error = True
MarkLastError(syn) == [syn EXCEPT ![Len(syn)].has_error = TRUE]

\* Mutant of OnTargetError: the invocation id is not compared.
OnTargetErrorLax(syn, target) ==
    IF Len(syn) = 0
    THEN [exc |-> "IndexError", syn |-> syn]
    ELSE IF target.instance_id # syn[Len(syn)].instance_id
         THEN [exc |-> "AssertionError", syn |-> syn]
         ELSE [exc |-> NoExc, syn |-> MarkLastError(syn)]

\* The elif branch of a RoutingErrorEvent: the two asserts, then the mark.
OnTargetError(syn, target) ==
    IF Len(syn) = 0
    THEN [exc |-> "IndexError", syn |-> syn]
    ELSE IF target.instance_id # syn[Len(syn)].instance_id
         THEN [exc |-> "AssertionError", syn |-> syn]
         ELSE IF target.invocation_id # syn[Len(syn)].invocation_id
              THEN [exc |-> "AssertionError", syn |-> syn]
              ELSE [exc |-> NoExc, syn |-> MarkLastError(syn)]

\* Mutant of OnTarget: an event whose ids the last record already has is dropped.
OnTargetDedup(syn, target, parent_id, chute_id) ==
    IF /\ Len(syn) > 0
       /\ syn[Len(syn)].instance_id = target.instance_id
       /\ syn[Len(syn)].invocation_id = target.invocation_id
    THEN syn
    ELSE Append(syn, NewSynthetic(target, parent_id, chute_id))

\* The append branch of a RoutingEvent.
OnTarget(syn, target, parent_id, chute_id) ==
    Append(syn, NewSynthetic(target, parent_id, chute_id))

\* One iteration of "async for chunk_bytes in resp.content": [exc, syn].
ProcessChunk(syn, parent_id, chute_id, chunk) ==
    IF chunk.line = "skip"
    THEN [exc |-> NoExc, syn |-> syn]                       \* continue
    ELSE IF chunk.line = "badjson"
    THEN [exc |-> "JSONDecodeError", syn |-> syn]
    ELSE LET data == chunk.data
             t == ExtractTarget(data)
         IN  IF t.exc # NoExc
             THEN [exc |-> t.exc, syn |-> syn]
             ELSE IF t.val # None
             THEN IF DebugTarget(data) # NoExc
                  THEN [exc |-> DebugTarget(data), syn |-> syn]
                  ELSE [exc |-> NoExc,
                        syn |-> OnTarget(syn, t.val[1], parent_id, chute_id)]
             ELSE LET e == ExtractTargetError(data) IN
                  IF e.exc # NoExc
                  THEN [exc |-> e.exc, syn |-> syn]
                  ELSE IF e.val # None
                  THEN OnTargetError(syn, e.val[1])
                  ELSE [exc |-> NoExc, syn |-> syn]         \* error / result: logged

\* The fold of ProcessChunk over a whole stream s, as the loop runs it:
\* it stops at the first exception.
RECURSIVE RunStream(_, _, _, _)
RunStream(syn, parent_id, chute_id, s) ==
    IF s = << >>
    THEN [exc |-> NoExc, syn |-> syn]
    ELSE LET r == ProcessChunk(syn, parent_id, chute_id, Head(s)) IN
         IF r.exc # NoExc THEN r ELSE RunStream(r.syn, parent_id, chute_id, Tail(s))

(***************************************************************************)
(* The fleet snapshot: self.chutes maps chute_id to the item of the API.   *)
(***************************************************************************)
TargetName == "deepseek-ai/DeepSeek-R1-Distill-Qwen-32B"

\* Mutant of AnyHot: some instance active and some instance verified.
AnyActiveAnyVerified(instances) ==
    /\ \E i \in 1..Len(instances) : instances[i].active
    /\ \E i \in 1..Len(instances) : instances[i].verified

\* any([instance.active and instance.verified for instance in chute.instances])
AnyHot(instances) ==
    \E i \in 1..Len(instances) : instances[i].active /\ instances[i].verified

\* The filter of the list comprehension of _get_vllm_chute.
Qualifies(chute) ==
    /\ chute.standard_template = "vllm"
    /\ AnyHot(chute.instances)
    /\ chute.name = TargetName

\* vllm_chutes of _get_vllm_chute, as the set of their chute ids.
VllmChutes(snapshot) == {c \in DOMAIN snapshot : Qualifies(snapshot[c])}

(***************************************************************************)
(* Persistence: the rows of table synthetics, keyed by                     *)
(* parent_invocation_id.                                                   *)
(***************************************************************************)
\* Synthetic.parent_invocation_id = Column(String, primary_key=True)
PrimaryKey(row) == row.parent_invocation_id

\* The INSERTs of one flush succeed when no two rows share the primary key
\* and no stored row has it.
KeysFree(rows, batch) ==
    /\ \A i, j \in 1..Len(batch) : i # j => PrimaryKey(batch[i]) # PrimaryKey(batch[j])
    /\ \A i \in 1..Len(batch) : \A r \in rows : PrimaryKey(r) # PrimaryKey(batch[i])

\* Mutant of AddAll: the session stores nothing.
AddNone(rows, batch) == rows

\* session.add(synthetic) for each, then commit.
AddAll(rows, batch) == rows \cup {batch[i] : i \in 1..Len(batch)}

\* Mutant of NotSynthetics: only None is tested.
NotSyntheticsNoneOnly(res) == res = None

\* "if not synthetics": None and the empty list are falsy.
NotSynthetics(res) == res = None \/ res[1] = << >>

\* The value _perform_request returns after "except Exception".
OnException(syn) == None

\* len(synthetics) in the log line of _perform_chat: [exc, val].
LenOf(res) ==
    IF res = None THEN [exc |-> "TypeError", val |-> 0]
    ELSE [exc |-> NoExc, val |-> Len(res[1])]

(***************************************************************************)
(* Inputs: what the fleet API, the probe endpoint and its stream can send. *)
(***************************************************************************)
QueryMsg(inst, uid, hk) ==
    << W("query"), KV("target", inst), KV("uid", uid), KV("hotkey", hk) >>

ErrorMsg(inst, uid, hk, text) ==
    << W("error"), W("encountered"), W("while"), W("querying"),
       KV("target", inst), KV("uid", uid), KV("hotkey", hk), KVc("coldkey", "ck") >>
    \o text

Trace(msg, inv, ts) == [message |-> msg, invocation_id |-> inv, timestamp |-> ts]

NoData == [trace |-> None, error |-> "", result |-> ""]

TraceChunk(msg, inv, ts) ==
    [line |-> "data",
     data |-> [trace |-> Some(Trace(msg, inv, ts)), error |-> "", result |-> ""]]

ErrText == << W("connection"), W("refused") >>

RouteA == TraceChunk(Some(QueryMsg("i1", "7", "h1")), Some("v1"), Some("t"))
RouteB == TraceChunk(Some(QueryMsg("i2", "8", "h2")), Some("v2"), Some("t"))
ErrA == TraceChunk(Some(ErrorMsg("i1", "7", "h1", ErrText)), Some("v1"), Some("t"))
ErrB == TraceChunk(Some(ErrorMsg("i2", "8", "h2", ErrText)), Some("v2"), Some("t"))
ErrAB == TraceChunk(Some(ErrorMsg("i1", "7", "h1", ErrText)), Some("v2"), Some("t"))
OtherTrace == TraceChunk(Some(<< W("stream"), W("started") >>), Some("v1"), Some("t"))
NoMessage == TraceChunk(None, Some("v1"), Some("t"))
RouteNoInv == TraceChunk(Some(QueryMsg("i1", "7", "h1")), None, Some("t"))
RouteNoTs == TraceChunk(Some(QueryMsg("i1", "7", "h1")), Some("v1"), None)
SkipLine == [line |-> "skip", data |-> NoData]
BadJson == [line |-> "badjson", data |-> NoData]

Chunks ==
    {RouteA, RouteB, ErrA, ErrB, ErrAB, OtherTrace, NoMessage, RouteNoInv,
     RouteNoTs, SkipLine, BadJson}

ParentIds == {"p1", "p2"}

Inst(a, v) == [active |-> a, verified |-> v]

Item(c, name, template, instances) ==
    [chute_id |-> c, name |-> name, standard_template |-> template,
     instances |-> instances]

\* Items the fleet API can list under chute id c.
Hot(c) == Item(c, TargetName, "vllm", << Inst(TRUE, TRUE) >>)
Split(c) == Item(c, TargetName, "vllm", << Inst(TRUE, FALSE), Inst(FALSE, TRUE) >>)
Diffusion(c) == Item(c, TargetName, "diffusion", << Inst(TRUE, TRUE) >>)
OtherModel(c) == Item(c, "other/model", "vllm", << Inst(FALSE, FALSE), Inst(TRUE, TRUE) >>)
Cold(c) == Item(c, TargetName, "vllm", << >>)

\* The snapshots load_chutes can build: maps from chute ids to items.
Fleets ==
    {<< >>,
     [c \in {"c1"} |-> Hot(c)],
     [c \in {"c1"} |-> Split(c)],
     [c \in {"c1"} |-> Diffusion(c)],
     [c \in {"c1"} |-> OtherModel(c)],
     [c \in {"c1"} |-> Cold(c)],
     [c \in {"c1", "c2"} |-> IF c = "c1" THEN Hot(c) ELSE Split(c)],
     [c \in {"c1", "c2"} |-> IF c = "c1" THEN Diffusion(c) ELSE OtherModel(c)]}


\* The callers of aiosession() that run side by side in SessSpec.
NumCallers == 3

\* How often the client is closed in SessSpec.
MaxCloses == 2

Callers == 1..NumCallers

\* xin when no payload is given to the extractors.
NoInput == [shape |-> "none"]

\* xout before the extractors ran.
Unset == [kind |-> "unset", ev |-> None]

(***************************************************************************)
(* State.                                                                  *)
(*   running, chutes, slock, asession : fields of the Auditor              *)
(*   pc        : where perform_synthetics stands                           *)
(*   cycle     : iterations of the loop started so far                     *)
(*   chute, parent_id, synthetics, caught : locals of _perform_chat and    *)
(*               _perform_request (caught is exc of the except clause)     *)
(*   result    : synthetics of perform_synthetic / _perform_chat           *)
(*   db        : the committed rows of table synthetics                    *)
(*   escaped   : the exception that left perform_synthetics, if any        *)
(* History of the current cycle, kept for the properties:                  *)
(*   seen      : the chunks read from the response stream                  *)
(*   outcome   : how the cycle went                                        *)
(*   handed    : the batch given to the session, if any                    *)
(*   posts     : the POSTs sent                                            *)
(* Callers of aiosession() other than the loop, and the extractor on its  *)
(* own (used by the specifications SessSpec and ExtractSpec below):        *)
(*   cpc       : where each caller of aiosession() stands                  *)
(*   nopen     : the ClientSession objects that are open                   *)
(*   closes    : how often the client was closed                           *)
(*   xin, xout : a stream payload and what the extractors made of it       *)
(***************************************************************************)
VARIABLES running, chutes, slock, asession, pc, cycle, chute, parent_id,
          synthetics, caught, result, db, escaped, seen, outcome, handed, posts,
          cpc, nopen, closes, xin, xout

vars == << running, chutes, slock, asession, pc, cycle, chute, parent_id,
           synthetics, caught, result, db, escaped, seen, outcome, handed, posts,
           cpc, nopen, closes, xin, xout >>

other == << cpc, closes, xin, xout >>
side == << nopen, cpc, closes, xin, xout >>

auditor == << running, chutes, asession >>
locals == << chute, parent_id, synthetics, caught, result >>
history == << seen, outcome, handed, posts >>

\* Auditor.__init__, an empty table, and perform_synthetics about to start.
MainInit ==
    /\ running = TRUE
    /\ chutes = << >>
    /\ slock = FALSE
    /\ asession = "none"
    /\ pc = "while"
    /\ cycle = 0
    /\ chute = None
    /\ parent_id = None
    /\ synthetics = << >>
    /\ caught = NoExc
    /\ result = None
    /\ db = {}
    /\ escaped = NoExc
    /\ seen = << >>
    /\ outcome = ""
    /\ handed = None
    /\ posts = 0

\* No caller of aiosession() is under way, no client was built, and nothing
\* was given to the extractors.
SideInit ==
    /\ cpc = [c \in Callers |-> "idle"]
    /\ nopen = 0
    /\ closes = 0
    /\ xin = NoInput
    /\ xout = Unset

Init == MainInit /\ SideInit

\* "while self._running:" found true: the next cycle starts.
LoopEnter ==
    /\ pc = "while" /\ running /\ cycle < MaxCycles
    /\ pc' = "load"
    /\ cycle' = cycle + 1
    /\ chute' = None /\ parent_id' = None /\ synthetics' = << >>
    /\ caught' = NoExc /\ result' = None
    /\ seen' = << >> /\ outcome' = "" /\ handed' = None /\ posts' = 0
    /\ UNCHANGED << auditor, slock, db, escaped >>
    /\ UNCHANGED side

\* Mutant of LoopExit: the flag is looked at in the middle of a cycle too.
LoopExitMidCycle ==
    /\ pc \notin {"stopped", "crashed"} /\ ~running
    /\ pc' = "stopped"
    /\ UNCHANGED << auditor, slock, cycle, locals, db, escaped, history >>
    /\ UNCHANGED side

\* "while self._running:" found false: perform_synthetics returns.
LoopExit ==
    /\ pc = "while" /\ ~running
    /\ pc' = "stopped"
    /\ UNCHANGED << auditor, slock, cycle, locals, db, escaped, history >>
    /\ UNCHANGED side

\* self._running = False (the KeyboardInterrupt handler of run).
Stop ==
    /\ running /\ pc \notin {"stopped", "crashed"}
    /\ running' = FALSE
    /\ UNCHANGED << chutes, asession, slock, pc, cycle, locals, db, escaped, history >>
    /\ UNCHANGED side

\* Mutant of NeedsClient: a client is built on every call.
NeedsClientAlways(s) == TRUE

\* aiosession(): "self._asession is None or self._asession.closed".
NeedsClient(s) == s = "none" \/ s = "closed"

\* aiosession(): the client is created if there is none or it is closed.
SessionOf(s) == IF NeedsClient(s) THEN "open" ELSE s

\* The open ClientSession objects after aiosession() ran with n open before.
OpenAfter(s, n) == IF NeedsClient(s) THEN n + 1 ELSE n

\* Mutant of Replaced: the fetched services are written into the old
\* snapshot, which keeps the services the answer does not name.
Merged(old, new) ==
    [c \in (DOMAIN old) \cup (DOMAIN new) |-> IF c \in DOMAIN new THEN new[c] ELSE old[c]]

\* load_chutes: a fresh dict is filled from the answer and assigned to
\* self.chutes at the end.
Replaced(old, new) == new

\* load_chutes: "async with self.aiosession() as session".
LoadEnter ==
    /\ pc = "load" /\ ~slock
    /\ slock' = TRUE
    /\ asession' = SessionOf(asession)
    /\ nopen' = OpenAfter(asession, nopen)
    /\ pc' = "get"
    /\ UNCHANGED << running, chutes, cycle, locals, db, escaped, history >>
    /\ UNCHANGED other

\* load_chutes: the GET answered, self.chutes replaced, the lock released.
LoadChutes ==
    /\ pc = "get"
    /\ \E f \in Fleets : chutes' = Replaced(chutes, f)
    /\ slock' = FALSE
    /\ pc' = "chat"
    /\ UNCHANGED << running, asession, cycle, locals, db, escaped, history >>
    /\ UNCHANGED side

\* load_chutes: the GET or the decoding raised; the exception leaves the loop.
LoadFail ==
    /\ pc = "get"
    /\ slock' = FALSE
    /\ escaped' = "ClientError"
    /\ outcome' = "FleetFetchFailed"
    /\ pc' = "crashed"
    /\ UNCHANGED << auditor, cycle, locals, db, seen, handed, posts >>
    /\ UNCHANGED side

\* _perform_chat: _get_vllm_chute returned None.
ChatNoChute ==
    /\ pc = "chat" /\ VllmChutes(chutes) = {}
    /\ result' = None
    /\ outcome' = "NoEligibleTarget"
    /\ pc' = "check"
    /\ UNCHANGED << auditor, slock, cycle, chute, parent_id, synthetics, caught,
                    db, escaped, seen, handed, posts >>
    /\ UNCHANGED side

\* _perform_chat: random.choice(vllm_chutes) and the payload built.
ChatChute ==
    /\ pc = "chat"
    /\ \E c \in VllmChutes(chutes) : chute' = Some(chutes[c])
    /\ pc' = "request"
    /\ UNCHANGED << auditor, slock, cycle, parent_id, synthetics, caught, result,
                    db, escaped, history >>
    /\ UNCHANGED side

\* get_random_text_payload: random.randint(0, len) drew len, the index raised.
PayloadFail ==
    /\ pc = "chat" /\ VllmChutes(chutes) # {}
    /\ \E c \in VllmChutes(chutes) : chute' = Some(chutes[c])
    /\ escaped' = "IndexError"
    /\ outcome' = "PayloadFailed"
    /\ pc' = "crashed"
    /\ UNCHANGED << auditor, slock, cycle, parent_id, synthetics, caught, result,
                    db, seen, handed, posts >>
    /\ UNCHANGED side

\* _perform_request: synthetics = [] and the session entered.
RequestEnter ==
    /\ pc = "request" /\ ~slock
    /\ synthetics' = << >>
    /\ slock' = TRUE
    /\ asession' = SessionOf(asession)
    /\ nopen' = OpenAfter(asession, nopen)
    /\ pc' = "post"
    /\ UNCHANGED << running, chutes, cycle, chute, parent_id, caught, result,
                    db, escaped, history >>
    /\ UNCHANGED other

\* Mutant of Return: the lock stays held when _perform_request returns.
ReturnHoldingLock(res, exc, how) ==
    /\ result' = res
    /\ caught' = exc
    /\ outcome' = how
    /\ synthetics' = << >>
    /\ UNCHANGED slock
    /\ pc' = "log"

\* _perform_request returns res (or falls to "return None"): the context
\* managers exit, the lock is released, _perform_chat goes on to its log line.
Return(res, exc, how) ==
    /\ result' = res
    /\ caught' = exc
    /\ outcome' = how
    /\ synthetics' = << >>
    /\ slock' = FALSE
    /\ pc' = "log"

\* resp.status != 200: warning, bare return.
PostRejected ==
    /\ pc = "post"
    /\ posts' = posts + 1
    /\ Return(None, NoExc, "RequestRejected")
    /\ UNCHANGED << auditor, cycle, chute, parent_id, db, escaped, seen, handed >>
    /\ UNCHANGED side

\* session.post raised, or the response has no X-Chutes-InvocationID header.
PostFail ==
    /\ pc = "post"
    /\ posts' = posts + 1
    /\ \E e \in {"ClientError", "KeyError"} :
          Return(OnException(synthetics), e, "RequestFailed")
    /\ UNCHANGED << auditor, cycle, chute, parent_id, db, escaped, seen, handed >>
    /\ UNCHANGED side

\* Status 200: parent_id read from the header, the body is read next.
PostOk ==
    /\ pc = "post"
    /\ posts' = posts + 1
    /\ \E p \in ParentIds : parent_id' = Some(p)
    /\ pc' = "stream"
    /\ UNCHANGED << auditor, slock, cycle, chute, synthetics, caught, result,
                    db, escaped, seen, outcome, handed >>
    /\ UNCHANGED side

\* How a cycle that died on exception exc is called.
OutcomeOf(exc) ==
    IF exc \in {"IndexError", "AssertionError"} THEN "ProtocolViolation"
    ELSE "ParseAnomaly"

\* One chunk of resp.content read and processed.
ReadChunk ==
    /\ pc = "stream" /\ Len(seen) < MaxChunks
    /\ \E ch \in Chunks :
          LET r == ProcessChunk(synthetics, parent_id[1], chute[1].chute_id, ch) IN
          /\ seen' = Append(seen, ch)
          /\ IF r.exc = NoExc
             THEN /\ synthetics' = r.syn
                  /\ UNCHANGED << slock, pc, caught, result, outcome >>
             ELSE Return(OnException(synthetics), r.exc, OutcomeOf(r.exc))
    /\ UNCHANGED << auditor, cycle, chute, parent_id, db, escaped, handed, posts >>
    /\ UNCHANGED side

\* resp.content ended: "return synthetics".
StreamEnd ==
    /\ pc = "stream"
    /\ Return(Some(synthetics), NoExc, "Completed")
    /\ UNCHANGED << auditor, cycle, chute, parent_id, db, escaped, seen, handed, posts >>
    /\ UNCHANGED side

\* Reading resp.content raised (connection lost mid-stream).
StreamFail ==
    /\ pc = "stream"
    /\ Return(OnException(synthetics), "ClientPayloadError", "StreamInterrupted")
    /\ UNCHANGED << auditor, cycle, chute, parent_id, db, escaped, seen, handed, posts >>
    /\ UNCHANGED side

\* _perform_chat: the log line with len(synthetics), then "return synthetics".
ChatLog ==
    /\ pc = "log"
    /\ IF LenOf(result).exc = NoExc
       THEN /\ pc' = "check"
            /\ UNCHANGED escaped
       ELSE /\ pc' = "crashed"
            /\ escaped' = LenOf(result).exc
    /\ UNCHANGED << auditor, slock, cycle, locals, db, history >>
    /\ UNCHANGED side

\* perform_synthetic: "if not synthetics: return", else the session is opened
\* and every synthetic added to it.
PersistCheck ==
    /\ pc = "check"
    /\ IF NotSynthetics(result)
       THEN /\ pc' = "sleep"
            /\ UNCHANGED handed
       ELSE /\ pc' = "commit"
            /\ handed' = result
    /\ UNCHANGED << auditor, slock, cycle, locals, db, escaped, seen, outcome, posts >>
    /\ UNCHANGED side

\* session.commit() went through: the rows are stored.
CommitOk ==
    /\ pc = "commit" /\ KeysFree(db, handed[1])
    /\ db' = AddAll(db, handed[1])
    /\ pc' = "sleep"
    /\ UNCHANGED << auditor, slock, cycle, locals, escaped, history >>
    /\ UNCHANGED side

\* session.commit() raised (a key collision or the database failing):
\* get_session rolls back and re-raises.
CommitFail ==
    /\ pc = "commit"
    /\ escaped' = IF KeysFree(db, handed[1]) THEN "OperationalError" ELSE "IntegrityError"
    /\ outcome' = "PersistenceFailed"
    /\ pc' = "crashed"
    /\ UNCHANGED << auditor, slock, cycle, locals, db, seen, handed, posts >>
    /\ UNCHANGED side

\* await asyncio.sleep(60)
Sleep ==
    /\ pc = "sleep"
    /\ pc' = "while"
    /\ UNCHANGED << auditor, slock, cycle, locals, db, escaped, history >>
    /\ UNCHANGED side

Next ==
    \/ LoopEnter \/ LoopExit \/ Stop
    \/ LoadEnter \/ LoadChutes \/ LoadFail
    \/ ChatNoChute \/ ChatChute \/ PayloadFail
    \/ RequestEnter \/ PostRejected \/ PostFail \/ PostOk
    \/ ReadChunk \/ StreamEnd \/ StreamFail
    \/ ChatLog \/ PersistCheck \/ CommitOk \/ CommitFail \/ Sleep

Spec == Init /\ [][Next]_vars

\* The steps of the task perform_synthetics itself (all but the setting of
\* the flag, which comes from outside).
Step ==
    \/ LoopEnter \/ LoopExit
    \/ LoadEnter \/ LoadChutes \/ LoadFail
    \/ ChatNoChute \/ ChatChute \/ PayloadFail
    \/ RequestEnter \/ PostRejected \/ PostFail \/ PostOk
    \/ ReadChunk \/ StreamEnd \/ StreamFail
    \/ ChatLog \/ PersistCheck \/ CommitOk \/ CommitFail \/ Sleep

\* The event loop resumes the task whenever what it awaits is over: every
\* request, stream and sleep ends.
FairSpec == Spec /\ WF_vars(Step)

(***************************************************************************)
(* Callers of aiosession() side by side: tasks that each enter the context *)
(* manager, use the client and leave, while the client may be closed.      *)
(***************************************************************************)
main == << running, chutes, pc, cycle, locals, db, escaped, history >>

\* A task calls self.aiosession() and waits for the lock.
CallerAsk(c) ==
    /\ cpc[c] = "idle"
    /\ cpc' = [cpc EXCEPT ![c] = "wait"]
    /\ UNCHANGED << main, slock, asession, nopen, closes, xin, xout >>

\* "async with self._slock": the lock is free and taken.
CallerAcquire(c) ==
    /\ cpc[c] = "wait" /\ ~slock
    /\ slock' = TRUE
    /\ cpc' = [cpc EXCEPT ![c] = "check"]
    /\ UNCHANGED << main, asession, nopen, closes, xin, xout >>

\* The test of self._asession, the ClientSession built if needed, the yield.
CallerCreate(c) ==
    /\ cpc[c] = "check"
    /\ asession' = SessionOf(asession)
    /\ nopen' = OpenAfter(asession, nopen)
    /\ cpc' = [cpc EXCEPT ![c] = "use"]
    /\ UNCHANGED << main, slock, closes, xin, xout >>

\* The with block of the caller ends (normally or not): the lock is released.
CallerLeave(c) ==
    /\ cpc[c] = "use"
    /\ slock' = FALSE
    /\ cpc' = [cpc EXCEPT ![c] = "idle"]
    /\ UNCHANGED << main, asession, nopen, closes, xin, xout >>

\* await self._asession.close()
CloseClient ==
    /\ asession = "open" /\ closes < MaxCloses
    /\ asession' = "closed"
    /\ nopen' = nopen - 1
    /\ closes' = closes + 1
    /\ UNCHANGED << main, slock, cpc, xin, xout >>

SessNext ==
    \/ \E c \in Callers : CallerAsk(c)
    \/ \E c \in Callers : CallerAcquire(c)
    \/ \E c \in Callers : CallerCreate(c)
    \/ \E c \in Callers : CallerLeave(c)
    \/ CloseClient

SessSpec == Init /\ [][SessNext]_vars

(***************************************************************************)
(* The events of a stream, as the extractor classifies its chunks.         *)
(***************************************************************************)
\* What the two extractors make of chunk ch: "routing" with the Target of
\* _extract_target, "error" with the Target of _extract_target_error, else
\* "none".
Classify(ch) ==
    IF ch.line # "data" THEN [kind |-> "none", ev |-> None]
    ELSE LET t == ExtractTarget(ch.data) IN
         IF t.exc # NoExc THEN [kind |-> "none", ev |-> None]
         ELSE IF t.val # None THEN [kind |-> "routing", ev |-> t.val]
         ELSE LET e == ExtractTargetError(ch.data) IN
              IF e.exc = NoExc /\ e.val # None
              THEN [kind |-> "error", ev |-> e.val]
              ELSE [kind |-> "none", ev |-> None]

\* Classify, tabulated over the chunks a stream can carry.
Classified == [ch \in Chunks |-> Classify(ch)]

IsRoutingEvent(ch) == Classified[ch].kind = "routing"

IsErrorEvent(ch) == Classified[ch].kind = "error"

EventOf(ch) == Classified[ch].ev[1]

\* The routing events of s, in arrival order.
Routed(s) == SelectSeq(s, IsRoutingEvent)

\* How many routing events precede position j of s.
RoutedBefore(s, j) == Cardinality({k \in 1..(j - 1) : IsRoutingEvent(s[k])})

\* Some error event of s arrived with no record before it, or with ids
\* other than those of the last routing event before it.
Violation(s) ==
    \E j \in 1..Len(s) :
        /\ IsErrorEvent(s[j])
        /\ LET before == Routed(SubSeq(s, 1, j - 1)) IN
           \/ before = << >>
           \/ EventOf(before[Len(before)]).instance_id # EventOf(s[j]).instance_id
           \/ EventOf(before[Len(before)]).invocation_id # EventOf(s[j]).invocation_id

\* recs has one record per routing event of s, in order, with its fields.
RecordsMatch(recs, s) ==
    LET ev == Routed(s) IN
    /\ Len(recs) = Len(ev)
    /\ \A i \in 1..Len(recs) :
          /\ recs[i].instance_id = EventOf(ev[i]).instance_id
          /\ recs[i].invocation_id = EventOf(ev[i]).invocation_id
          /\ recs[i].miner_uid = EventOf(ev[i]).uid
          /\ recs[i].miner_hotkey = EventOf(ev[i]).hotkey

\* The pc values of a cycle behind the target selection of _perform_chat.
AfterSelect == {"request", "post", "stream", "log", "check", "commit", "sleep"}

\* C1: in the sequence a cycle returns, a record's has_error is TRUE exactly
\* when an error event with the record's instance and invocation id arrived
\* while the record was the last one appended; [RouteA, ErrA] gives one record
\* with has_error, [RouteA, RouteB, ErrB] two records of which only the second
\* has it, and a stream of routing events only gives none with has_error.
C1_HasErrorIffMatchedError ==
    result # None =>
        LET recs == result[1] IN
        /\ \A i \in 1..Len(recs) :
              recs[i].has_error <=>
                  \E j \in 1..Len(seen) :
                      /\ IsErrorEvent(seen[j])
                      /\ RoutedBefore(seen, j) = i
                      /\ EventOf(seen[j]).instance_id = recs[i].instance_id
                      /\ EventOf(seen[j]).invocation_id = recs[i].invocation_id
        /\ seen = << RouteA, ErrA >> => Len(recs) = 1 /\ recs[1].has_error
        /\ seen = << RouteA, RouteB, ErrB >> =>
              Len(recs) = 2 /\ ~recs[1].has_error /\ recs[2].has_error
        /\ (\A j \in 1..Len(seen) : IsRoutingEvent(seen[j])) =>
              \A i \in 1..Len(recs) : ~recs[i].has_error

C1_Witness ==
    /\ pc = "log" /\ result # None
    /\ seen = << RouteA, RouteB, ErrB >>
    /\ Len(result[1]) = 2 /\ ~result[1][1].has_error /\ result[1][2].has_error

\* C2: while a cycle reads its stream, and in what it returns, the record
\* sequence has exactly one record per routing event read in this cycle, in
\* arrival order and with that event's instance id, invocation id, uid and
\* hotkey; error events add none, nothing is dropped, merged or reordered.
C2_OneRecordPerRoutingEvent ==
    /\ pc \in {"post", "stream"} => RecordsMatch(synthetics, seen)
    /\ result # None => RecordsMatch(result[1], seen)

C2_Witness ==
    /\ pc = "stream" /\ cycle = 2 /\ db # {}
    /\ seen = << RouteA, ErrA, RouteA >>
    /\ Len(synthetics) = 2

\* C3: once an error event arrived with an empty record sequence, or with an
\* instance or invocation id other than the last record's, the cycle is a
\* protocol violation, returns nothing and hands no record to the session.
C3_ViolationCommitsNothing ==
    Violation(seen) =>
        /\ outcome = "ProtocolViolation"
        /\ result = None
        /\ handed = None
        /\ pc \in {"log", "crashed"}

C3_Witness ==
    /\ Violation(seen) /\ Len(Routed(seen)) > 0
    /\ pc = "crashed" /\ handed = None

\* C4 (as claimed): after an I/O failure of a stream that had routing events
\* the records built so far are returned and nothing escapes to the loop.
C4_Claim ==
    (outcome = "StreamInterrupted" /\ Routed(seen) # << >>) =>
        /\ escaped = NoExc
        /\ result # None
        /\ RecordsMatch(result[1], seen)

\* C5 (as claimed): after a non-200 answer no chunk is read, one POST was
\* sent, nothing is handed to the session and nothing escapes to the loop.
C5_Claim ==
    outcome = "RequestRejected" =>
        /\ seen = << >>
        /\ posts = 1
        /\ NotSynthetics(result)
        /\ handed = None
        /\ escaped = NoExc

\* C6 (as claimed): a protocol violation never ends the loop.
C6_Claim == Violation(seen) => escaped = NoExc /\ pc # "crashed"

\* C7 (as claimed): a failing commit stores none of the batch and does
\* not end the loop.
C7_Claim ==
    [][(pc = "commit" /\ outcome' = "PersistenceFailed") =>
           (db' = db /\ escaped' = NoExc /\ pc' # "crashed")]_vars

\* A service of the snapshot as _get_vllm_chute wants it.
FullyQualifies(item) ==
    /\ item.standard_template = "vllm"
    /\ item.name = "deepseek-ai/DeepSeek-R1-Distill-Qwen-32B"
    /\ \E i \in DOMAIN item.instances :
          item.instances[i].active /\ item.instances[i].verified

\* C8: a cycle whose snapshot has no qualifying service ends as
\* NoEligibleTarget with no POST sent, no chunk read, no records and nothing
\* handed to the session; and no empty batch is ever handed to the session.
C8_NoTargetNoRequestNoPersist ==
    /\ (pc \in AfterSelect /\ \A c \in DOMAIN chutes : ~FullyQualifies(chutes[c])) =>
          /\ outcome = "NoEligibleTarget"
          /\ posts = 0 /\ seen = << >> /\ parent_id = None
          /\ NotSynthetics(result)
          /\ handed = None /\ pc # "commit"
    /\ handed # None => handed[1] # << >>

C8_Witness ==
    /\ outcome = "NoEligibleTarget" /\ pc = "sleep"
    /\ DOMAIN chutes # {} /\ handed = None /\ posts = 0

\* Some single instance of the service is both active and verified.
HasHotInstance(item) ==
    \E i \in DOMAIN item.instances :
        item.instances[i].active /\ item.instances[i].verified

IsAnomaly(ch) ==
    \/ ch.line = "badjson"
    \/ /\ ch.line = "data" /\ ch.data.trace # None
       /\ \/ ch.data.trace[1].message = None
          \/ ch.data.trace[1].invocation_id = None

\* s without its anomalous payloads.
WellFormed(s) == SelectSeq(s, LAMBDA ch : ~IsAnomaly(ch))

\* C10 (as claimed): the records of a cycle are those of its stream with the
\* anomalous payloads left out.
C10_Claim ==
    (parent_id # None /\ outcome # "StreamInterrupted") =>
        LET r == RunStream(<< >>, parent_id[1], chute[1].chute_id, WellFormed(seen)) IN
        r.exc = NoExc =>
            IF pc = "stream" THEN synthetics = r.syn ELSE result = Some(r.syn)

(***************************************************************************)
(* The scheduler loop (perform_synthetics).                                *)
(***************************************************************************)
\* The records of batch are all stored in rows.
Stored(rows, batch) == \A i \in 1..Len(batch) : batch[i] \in rows

\* C11: a cycle starts only at the loop test, with nothing of the previous
\* cycle under way (no lock held, no list being built), and when the sleep
\* after a cycle begins the records that cycle returned were given to the
\* session and are stored.
C11_OneCycleAtATimePersistedBeforeSleep ==
    /\ [](pc = "sleep" /\ result # None /\ result[1] # << >> =>
              /\ handed = result
              /\ Stored(db, result[1]))
    /\ [][cycle' # cycle =>
              /\ cycle' = cycle + 1
              /\ pc = "while" /\ pc' = "load"
              /\ ~slock /\ synthetics = << >>
              /\ (cycle > 0 => outcome \in {"Completed", "NoEligibleTarget"})]_vars

C11_Witness ==
    /\ pc = "sleep" /\ cycle = 2
    /\ result # None /\ result[1] # << >>
    /\ Cardinality(db) = 2

(***************************************************************************)
(* The parent invocation id of a cycle.                                    *)
(***************************************************************************)
\* Every record of recs has parent invocation id p.
AllCarry(recs, p) == \A i \in 1..Len(recs) : recs[i].parent_invocation_id = p

\* C15: no chunk is processed and no record exists before the parent id was
\* read from the header, the parent id is set once per cycle, before the
\* first chunk, and every record of the cycle carries it.
C15_ParentIdBeforeBodyAndOnEveryRecord ==
    /\ [](/\ (pc = "stream" \/ seen # << >> \/ synthetics # << >>) => parent_id # None
          /\ parent_id # None => AllCarry(synthetics, parent_id[1])
          /\ (result # None /\ parent_id # None) => AllCarry(result[1], parent_id[1])
          /\ (result # None /\ result[1] # << >>) => parent_id # None)
    /\ [][(parent_id' # parent_id /\ cycle' = cycle) =>
              /\ parent_id = None
              /\ pc = "post" /\ pc' = "stream"
              /\ seen = << >> /\ seen' = << >> /\ synthetics' = << >>]_vars

C15_Witness ==
    /\ pc = "stream" /\ cycle = 2
    /\ Len(synthetics) = 2
    /\ parent_id = Some("p2")

(***************************************************************************)
(* The fleet snapshot (self.chutes).                                       *)
(***************************************************************************)
\* C17: self.chutes changes only in the step that ends the fetch at the
\* start of a cycle, and then it is, whole, an answer of the API; a fetch
\* that fails leaves it as it was, and so does every other step.
C17_SnapshotReplacedWholesaleAtCycleStart ==
    /\ [][chutes' # chutes =>
              /\ pc = "get" /\ pc' = "chat"
              /\ chutes' \in Fleets
              /\ seen = << >> /\ posts = 0 /\ chute = None]_vars
    /\ [][(pc = "get" /\ pc' = "crashed") => chutes' = chutes]_vars
    /\ [][pc \notin {"get"} => chutes' = chutes]_vars

C17_Witness ==
    /\ cycle = 2 /\ pc = "chat"
    /\ db # {}
    /\ chutes = << >>

(***************************************************************************)
(* The primary key of the rows of one batch.                               *)
(***************************************************************************)
\* C18 (as claimed): the records a Completed cycle hands to the session
\* have pairwise different primary keys, so the batch can be committed.
C18_Claim ==
    (outcome = "Completed" /\ handed # None) =>
        \A i, j \in 1..Len(handed[1]) :
            i # j => PrimaryKey(handed[1][i]) # PrimaryKey(handed[1][j])

(***************************************************************************)
(* The lock of the shared HTTP client (self._slock).                       *)
(***************************************************************************)
\* The steps at which the cycle uses the client.
UsesClient(p) == p \in {"get", "post", "stream"}

\* C19: the lock is held exactly while the cycle uses the client: it is
\* free whenever the cycle asks for it (at the fetch and at the request),
\* after every way out of the fetch and of the request, and when the next
\* cycle starts.
C19_LockHeldExactlyWhileClientInUse ==
    /\ slock <=> UsesClient(pc)
    /\ pc \in {"load", "request", "while", "log", "crashed", "stopped"} => ~slock

C19_Witness ==
    /\ cycle = 2 /\ pc = "log"
    /\ outcome = "StreamInterrupted"
    /\ ~slock

(***************************************************************************)
(* has_error over the chunks of one stream.                                *)
(***************************************************************************)
\* Chunk ch is an error event with the ids of record r.
Matches(ch, r) ==
    /\ IsErrorEvent(ch)
    /\ EventOf(ch).instance_id = r.instance_id
    /\ EventOf(ch).invocation_id = r.invocation_id

\* C20: while a stream is read, no record loses has_error, no record but
\* the last changes, and an error event that matches a last record already
\* marked is taken without exception and leaves the list as it is.
C20_HasErrorMonotonicLastOnly ==
    [][(pc = "stream" /\ seen' # seen) =>
          /\ pc' = "stream" =>
                /\ Len(synthetics') >= Len(synthetics)
                /\ \A i \in 1..Len(synthetics) :
                      /\ synthetics[i].has_error => synthetics'[i].has_error
                      /\ i < Len(synthetics) => synthetics'[i] = synthetics[i]
                      /\ i < Len(synthetics') => synthetics'[i] = synthetics[i]
          /\ (/\ synthetics # << >>
              /\ synthetics[Len(synthetics)].has_error
              /\ Matches(seen'[Len(seen')], synthetics[Len(synthetics)])) =>
                /\ pc' = "stream"
                /\ caught' = NoExc
                /\ synthetics' = synthetics]_vars

C20_Witness ==
    /\ pc = "stream"
    /\ seen = << RouteA, ErrA, ErrA >>
    /\ Len(synthetics) = 1 /\ synthetics[1].has_error

(***************************************************************************)
(* The stop flag (self._running).                                          *)
(***************************************************************************)
\* C12: the flag is looked at only at the loop test: setting it changes
\* nothing of the cycle under way, the loop is left only from the loop
\* test, no cycle starts once the flag is down, and once it is down the
\* loop ends (returns, or is left by an exception of the cycle under way).
C12_StopObservedBetweenCycles ==
    /\ [][running' # running =>
              /\ ~running'
              /\ pc' = pc /\ locals' = locals /\ history' = history /\ db' = db]_vars
    /\ [][pc' = "stopped" /\ pc # "stopped" => pc = "while" /\ ~running]_vars
    /\ [][~running => cycle' = cycle]_vars
    /\ [][(~running /\ pc \notin {"while", "stopped"}) => pc' # "stopped"]_vars
    /\ (~running ~> pc \in {"stopped", "crashed"})

C12_Witness ==
    /\ ~running /\ cycle = 1
    /\ pc = "stream" /\ Len(seen) = 2

(***************************************************************************)
(* The shared HTTP client (self._asession).                                *)
(***************************************************************************)
\* The callers inside the lock of aiosession().
Inside == {c \in Callers : cpc[c] \in {"check", "use"}}

\* C13: no client exists before the first caller needs one, at most one
\* client is open at any time, a client is built only by a caller that
\* holds the lock and found none or a closed one, and at most one caller is
\* inside the lock.
C13_AtMostOneOpenClient ==
    /\ [](/\ nopen <= 1
          /\ (asession = "open") <=> (nopen = 1)
          /\ (asession = "none") => (nopen = 0 /\ closes = 0)
          /\ Cardinality(Inside) <= 1
          /\ (Inside # {}) <=> slock)
    /\ [][nopen' > nopen =>
              /\ asession \in {"none", "closed"} /\ asession' = "open"
              /\ nopen = 0 /\ nopen' = 1
              /\ slock
              /\ \E c \in Callers : cpc[c] = "check" /\ cpc'[c] = "use"]_vars

C13_Witness ==
    /\ closes = 1 /\ asession = "open" /\ nopen = 1
    /\ \E c \in Callers :
          /\ cpc[c] = "use"
          /\ \A d \in Callers \ {c} : cpc[d] = "wait"

(***************************************************************************)
(* The extractors on their own: one decoded payload is classified as the   *)
(* loop over resp.content classifies it.  A payload is described by the    *)
(* shape of its message ("query" or "error"), the three ids written into   *)
(* it, the words before it (pre) and behind it (text: the error text of an *)
(* error message), and the invocation id of its trace.                     *)
(***************************************************************************)
\* The uid texts tried: digits, digits with "+", and one with a letter.
Uids == {"7", "8", "+7", "u7"}

\* A message whose text holds a routing message.
Nested == QueryMsg("i2", "8", "h2")

XInputs ==
    [shape : {"query"}, inst : {"i1", "i2", "i3"}, uid : Uids, hk : {"h1", "h2"},
     inv : {None, Some("v1")}, pre : {<< >>, << W("now") >>},
     text : {<< >>, << W("done") >>}]
    \cup
    [shape : {"error"}, inst : {"i1", "i2"}, uid : Uids, hk : {"h1"},
     inv : {None, Some("v1")}, pre : {<< >>},
     text : {ErrText, Nested, << W("retry") >> \o Nested}]

\* The message of payload x.
XMsg(x) ==
    IF x.shape = "query"
    THEN x.pre \o QueryMsg(x.inst, x.uid, x.hk) \o x.text
    ELSE x.pre \o ErrorMsg(x.inst, x.uid, x.hk, x.text)

\* The chunk of payload x.
ChunkOf(x) ==
    IF x.shape = "none" THEN SkipLine
    ELSE TraceChunk(Some(XMsg(x)), x.inv, Some("t"))

ExtractInit ==
    /\ MainInit
    /\ cpc = [c \in Callers |-> "idle"]
    /\ nopen = 0
    /\ closes = 0
    /\ xin \in XInputs
    /\ xout = Unset

\* _extract_target, then _extract_target_error, on the payload.
Extract ==
    /\ xout = Unset
    /\ xout' = Classify(ChunkOf(xin))
    /\ UNCHANGED << main, slock, asession, nopen, cpc, closes, xin >>

ExtractNext == Extract

ExtractSpec == ExtractInit /\ [][ExtractNext]_vars

\* The uids made of digits and "+" only.
DigitsAndPlus == {"7", "8", "+7"}

\* The event ev carries the ids written into payload x.
SameIds(ev, x) ==
    /\ ev.instance_id = x.inst
    /\ ev.uid = x.uid
    /\ ev.hotkey = x.hk
    /\ ev.invocation_id = x.inv[1]

C16_Claim ==
    (/\ xout # Unset /\ xin.shape = "error"
     /\ xin.inv # None /\ xin.uid \in {"7", "8"}) =>
        /\ xout.kind = "error"
        /\ SameIds(xout.ev[1], xin)
        /\ xout.ev[1].error = Some(xin.text)

=============================================================================
